---- MODULE Spec2Model ----
(***************************************************************************)
(* Model of the Unity Cloud Content Delivery (CCD) storage driver:         *)
(* the driver (registry/storage/driver/ccd/ccd.go) and its buffered commit  *)
(* writer.                                                                 *)
(* The remote CCD bucket, the local scratch file system and the            *)
(* bufio.Writer of the writer are part of the state.  The code holds no    *)
(* lock across the file-system calls and the remote requests of a handler, *)
(* so a handler that makes more than one of them is a sequence of actions, *)
(* one per file-system phase, per read of the staging file and per remote  *)
(* request, with the caller's position kept in wr[w].call and in calls[c]; *)
(* the steps of other callers fall between them.  The outcome of each I/O  *)
(* call (a fault of the file system or of the remote) is an input of the   *)
(* action that makes it.                                                   *)
(***************************************************************************)
EXTENDS Integers, Sequences, FiniteSets, TLC

(***************************************************************************)
(* Bounds of the model.                                                    *)
(***************************************************************************)
\* largest staged file, and largest value of writer.size, in bytes
MaxFile == 2
\* capacity of the bufio.Writer (4096 in the Go library; scaled down so
\* that a full buffer happens within MaxFile bytes)
BufSize == 1
\* most faults (failing file-system or remote calls) injected in one behaviour
MaxFaults == 1
\* largest page the remote serves for one GetDiffEntries request
MaxPage == 2
\* longest storage path, in tokens, a bucket is derived from
MaxPath == 7
\* most bytes one Read of the staging file yields (the buffer of io.Copy and
\* of the request body; scaled down so that a file takes several reads)
ReadSize == 1

(***************************************************************************)
(* Values.                                                                 *)
(***************************************************************************)
\* byte values a caller writes; 0 is the byte the file system reads from a hole
Bytes == {1, 2}
FileBytes == Bytes \cup {0}

\* the byte sequences a caller passes to one Write or PutContent call
Chunks == UNION {[1..n -> Bytes] : n \in 1..MaxFile}

\* the contents the callers of PutContent store
PutChunks == {c \in Chunks : Len(c) = 1}

\* storage paths as the driver sees them: a leading separator and segments
PathA == <<"/", "a">>
PathAB == <<"/", "a", "b">>
PathC == <<"/", "c">>
DPaths == {PathA, PathAB, PathC}
\* the root, under which every object lies
PathRoot == <<"/">>

\* writer slots: each holds the writer object its caller currently drives
Writers == {1, 2}

\* the value of the request context's "vars.name"
CtxNames == {"", "bkt"}

NoInode == 0
InodeIds == 1..(Cardinality(Writers) + Cardinality(DPaths))

NoEntry == [exists |-> FALSE]
NoLimit == -1

Min(a, b) == IF a < b THEN a ELSE b
Max(a, b) == IF a < b THEN b ELSE a

(***************************************************************************)
(* Pure helpers.                                                           *)
(***************************************************************************)
\* hex.EncodeToString(md5(b)): a digest that tells apart all byte sequences
\* of the model (the base-4 numeral of the sequence)
RECURSIVE Md5Hex(_)
Md5Hex(b) ==
    IF b = <<>> THEN 0
    ELSE Md5Hex(SubSeq(b, 1, Len(b) - 1)) * (Cardinality(FileBytes) + 1) + b[Len(b)] + 1

\* strings.TrimPrefix(p, "/")
TrimPrefix(p) == IF p # <<>> /\ Head(p) = "/" THEN Tail(p) ELSE p

\* filepath.Join("/", p)
JoinRoot(p) == IF p # <<>> /\ Head(p) = "/" THEN p ELSE <<"/">> \o p

\* the remote keeps paths without the leading separator
RPaths == {TrimPrefix(p) : p \in DPaths}

\* path p falls under the prefix q
IsUnder(p, q) == Len(q) <= Len(p) /\ SubSeq(p, 1, Len(q)) = q

\* the tokens a storage path is written with: the separator, the marker of
\* the repository root, and two other names
Tokens == {"/", "repositories", "foo", "v2"}
TokenPaths == UNION {[1..n -> Tokens] : n \in 0..MaxPath}

\* the longest run of tokens other than the separator from position s of p
RECURSIVE Run(_, _)
Run(p, s) ==
    IF s > Len(p) \/ p[s] = "/" THEN <<>> ELSE <<p[s]>> \o Run(p, s + 1)

\* strings.Split(p, "/"): the segments between the separators, an empty
\* path giving one empty segment
RECURSIVE SplitFrom(_, _)
SplitFrom(p, s) ==
    LET seg == Run(p, s)
        next == s + Len(seg)
    IN IF next > Len(p) THEN <<seg>> ELSE <<seg>> \o SplitFrom(p, next + 1)
Split(p) == SplitFrom(p, 1)

\* a derivation that takes the last segment of the path (a variant the
\* derivation property must tell from bucketFromPath)
bucketFromPath_last(p) ==
    LET segs == Split(p)
    IN IF segs[Len(segs)] = <<>>
       THEN [bucket |-> <<>>, err |-> "could not parse bucket from path", path |-> p]
       ELSE [bucket |-> segs[Len(segs)], err |-> "", path |-> <<>>]

\* bucketFromPath(path): the segment after the first "repositories" segment;
\* the error names the path
bucketFromPath(p) ==
    LET segs == Split(p)
        at == {i \in 1..Len(segs) : segs[i] = <<"repositories">>}
        first == CHOOSE i \in at : \A j \in at : i <= j
    IN IF at = {} \/ first = Len(segs) \/ segs[first + 1] = <<>>
       THEN [bucket |-> <<>>, err |-> "could not parse bucket from path", path |-> p]
       ELSE [bucket |-> segs[first + 1], err |-> "", path |-> <<>>]

\* a lookup that takes the empty name for a bucket (a variant the
\* missing-name property must tell from bucketIDFromContext)
bucketIDFromContext_any(name) == [bucket |-> name, err |-> ""]

\* bucketIDFromContext
bucketIDFromContext(name) ==
    IF name = "" THEN [bucket |-> "", err |-> "could not determine bucket ID from context"]
    ELSE [bucket |-> name, err |-> ""]

\* the file's bytes after a write of data at offset off (a write past the
\* end leaves a hole that reads as zero bytes)
WriteAt(content, off, data) ==
    IF data = <<>> THEN content
    ELSE [i \in 1..Max(Len(content), off + Len(data)) |->
            IF i > off /\ i <= off + Len(data) THEN data[i - off]
            ELSE IF i <= Len(content) THEN content[i]
            ELSE 0]

VARIABLES
    entries,   \* the remote bucket: remote path -> entry record
    names,     \* the scratch directory: storage path -> inode of the staging file
    inodes,    \* the file system: inode -> bytes
    wr,        \* writer slot -> the writer object's fields, and its history:
               \* append (the flag it was opened with), base (the bytes the
               \* staging file held once the open had positioned it), wrote
               \* (the bytes Write accepted, in call order), failedCommit (a
               \* Commit got past its guard and failed)
    res,       \* what the last step returned: the operation, result and remote
               \* requests of the call that returned in it, Pending when the
               \* step was not the last of its call
    faults,    \* the number of faults injected so far
    calls,     \* caller -> the driver call it is in, between two of the
               \* call's remote requests (Idle: in none)
    start      \* history, kept where one caller makes one call at a time: the
               \* bucket and the count of faults at the start of the call in
               \* progress (NoStart: no call in progress)

vars == <<entries, names, inodes, wr, res, faults, calls, start>>

\* a caller's Writer or Commit call between two of its steps: where it is
\* (pc), the file driver.Writer has opened and not yet positioned (ofile,
\* opath, oappend), the digest and size Commit computed, the entry
\* identifier the upsert returned, the requests issued so far, and the bytes
\* the reads of the staging file have yielded so far (to the digest in
\* io.Copy, to the body of the upload request)
NoCall ==
    [pc |-> "idle", ofile |-> NoInode, opath |-> <<>>, oappend |-> FALSE,
     chash |-> 0, csize |-> 0, cid |-> <<>>, creqs |-> <<>>, cread |-> <<>>]

NoWriter ==
    [live |-> FALSE, path |-> <<>>, file |-> NoInode, off |-> 0, fdOpen |-> FALSE,
     buf |-> <<>>, bwErr |-> FALSE, size |-> 0,
     closed |-> FALSE, committed |-> FALSE, cancelled |-> FALSE,
     append |-> FALSE, base |-> <<>>, wrote |-> <<>>, failedCommit |-> FALSE,
     call |-> NoCall]

\* callers of the driver's bucket operations
Callers == {1, 2}

\* a caller's bucket operation between two of its remote requests: the next
\* request (pc), the operation and its arguments (op, path, dst, offset,
\* body), the digest of the body, the entry identifier the last lookup or
\* upsert returned, the listing gathered so far, the page to ask for
\* next and the size of the pages the remote serves, the index of the next
\* entry to delete, the requests issued so far
Idle ==
    [pc |-> "idle", op |-> "", path |-> <<>>, dst |-> <<>>, offset |-> 0,
     body |-> <<>>, hash |-> 0, id |-> <<>>, list |-> <<>>, page |-> 0, per |-> 0,
     i |-> 0, reqs |-> <<>>]

\* a request sent to the remote: the call, the path or entry it names, the
\* digest and size sent (for UploadContent: the Upload-Hash of the response;
\* for GetDiffEntries: size is the page asked for), the body sent
Req(kind, path, hash, size, body) ==
    [req |-> kind, path |-> path, hash |-> hash, size |-> size, body |-> body]

\* the result of a call
Result(op, w, path, err, n, val, reqs) ==
    [op |-> op, w |-> w, path |-> path, err |-> err, n |-> n, val |-> val, reqs |-> reqs]

\* no call returned in the step
Pending == Result("", 0, <<>>, "", 0, <<>>, <<>>)

NoStart == [entries |-> <<>>, faults |-> 0]

Init ==
    /\ entries = [p \in RPaths |-> NoEntry]
    /\ names = [p \in DPaths |-> NoInode]
    /\ inodes = [i \in InodeIds |-> <<>>]
    /\ wr = [w \in Writers |-> NoWriter]
    /\ res = Result("init", 0, <<>>, "", 0, <<>>, <<>>)
    /\ faults = 0
    /\ calls = [c \in Callers |-> Idle]
    /\ start = NoStart

\* a handler was given the fault chosen (or none) and the fault took effect
\* (used) or was never reached; a fault that takes no effect is no input
Inject(chosen, used) ==
    /\ chosen => used
    /\ used => faults < MaxFaults
    /\ faults' = IF used THEN faults + 1 ELSE faults

(***************************************************************************)
(* The local file system.                                                  *)
(***************************************************************************)
\* inodes a name or an open file descriptor still refers to
InUse(nm, ws) ==
    {nm[p] : p \in DPaths}
        \cup {ws[w].file : w \in {x \in Writers : ws[x].live /\ ws[x].fdOpen}}
        \cup {ws[w].call.ofile : w \in {x \in Writers : ws[x].call.pc = "position"}}

\* an inode nothing refers to is freed
Reclaim(ino, nm, ws) ==
    [i \in InodeIds |-> IF i \in InUse(nm, ws) THEN ino[i] ELSE <<>>]

FreshInode(nm, ws) == CHOOSE i \in InodeIds : i \notin InUse(nm, ws) /\ \A j \in InodeIds : j < i => j \in InUse(nm, ws)

\* os.File.Write of data through the descriptor of the writer st.s, the file
\* system accepting st.limit more bytes (NoLimit: all of them): the I/O state
\* afterwards, the count written and whether the write failed
FileWrite(st, data) ==
    LET n == IF ~st.s.fdOpen THEN 0
             ELSE IF st.limit = NoLimit \/ st.limit >= Len(data) THEN Len(data)
             ELSE st.limit
    IN [s |-> [st.s EXCEPT !.off = st.s.off + n],
        content |-> WriteAt(st.content, st.s.off, SubSeq(data, 1, n)),
        limit |-> IF st.limit = NoLimit THEN NoLimit ELSE st.limit - n,
        short |-> st.short \/ (st.s.fdOpen /\ n < Len(data)),
        n |-> n,
        err |-> ~st.s.fdOpen \/ n < Len(data)]

\* the I/O state of a handler: the writer, its file's bytes, the bytes the
\* file system still accepts, whether it has cut a write short
IOState(s, content, limit, short) ==
    [s |-> s, content |-> content, limit |-> limit, short |-> short]

(***************************************************************************)
(* bufio.Writer over the staging file (writer.bw).                         *)
(***************************************************************************)
\* a Flush that empties the buffer without writing it to the file (a variant
\* the round-trip property must tell from bwFlush)
bwFlush_drop(st) ==
    IF st.s.bwErr THEN [st |-> st, err |-> TRUE]
    ELSE [st |-> [st EXCEPT !.s.buf = <<>>], err |-> FALSE]

\* bufio.Writer.Flush
bwFlush(st) ==
    IF st.s.bwErr THEN [st |-> st, err |-> TRUE]
    ELSE IF st.s.buf = <<>> THEN [st |-> st, err |-> FALSE]
    ELSE LET r == FileWrite(st, st.s.buf)
             rest == SubSeq(st.s.buf, r.n + 1, Len(st.s.buf))
         IN IF r.err
            THEN [st |-> IOState([r.s EXCEPT !.buf = rest, !.bwErr = TRUE],
                                 r.content, r.limit, r.short),
                  err |-> TRUE]
            ELSE [st |-> IOState([r.s EXCEPT !.buf = <<>>], r.content, r.limit, r.short),
                  err |-> FALSE]

\* bufio.Writer.Write: nn is the count accepted so far
RECURSIVE bwWrite(_, _, _)
bwWrite(st, p, nn) ==
    IF Len(p) > BufSize - Len(st.s.buf) /\ ~st.s.bwErr
    THEN IF st.s.buf = <<>>
         THEN \* large write, empty buffer: written to the file directly
              LET r == FileWrite(st, p)
              IN bwWrite(IOState([r.s EXCEPT !.bwErr = r.err], r.content, r.limit, r.short),
                         SubSeq(p, r.n + 1, Len(p)), nn + r.n)
         ELSE \* fill the buffer and flush it
              LET n == BufSize - Len(st.s.buf)
                  filled == [st EXCEPT !.s.buf = st.s.buf \o SubSeq(p, 1, n)]
              IN bwWrite(bwFlush(filled).st, SubSeq(p, n + 1, Len(p)), nn + n)
    ELSE IF st.s.bwErr THEN [st |-> st, n |-> nn, err |-> TRUE]
    ELSE [st |-> [st EXCEPT !.s.buf = st.s.buf \o p], n |-> nn + Len(p), err |-> FALSE]

(***************************************************************************)
(* driver.Writer and the writer's methods.                                 *)
(***************************************************************************)
Limits == {NoLimit} \cup (0..(MaxFile - 1))

\* an open that takes any file of the scratch directory for the file at
\* the path (a variant the distinct-paths property must tell from OpenFile)
OpenFile_any(nm, ws, path) ==
    IF \E q \in DOMAIN nm : nm[q] # NoInode
    THEN nm[CHOOSE q \in DOMAIN nm : nm[q] # NoInode]
    ELSE FreshInode(nm, ws)

\* an open that gives every writer a file of its own (a variant the
\* shared-file property must tell from OpenFile)
OpenFile_private(nm, ws, path) == FreshInode(nm, ws)

\* os.OpenFile(path, O_RDWR|O_CREATE): the file at the path, a new one when
\* there is none; ws are the writers whose open files a new file is apart from
OpenFile(nm, ws, path) == IF nm[path] # NoInode THEN nm[path] ELSE FreshInode(nm, ws)

\* a positioning that truncates whatever the append flag says (a variant the
\* append property must tell from Position)
Position_truncate(append, atOpen) == [offset |-> 0, content |-> <<>>]

\* the branch of driver.Writer on append, after OpenFile: f.Seek(0, io.SeekEnd)
\* keeps the bytes and yields their count, f.Truncate(0) drops them
Position(append, atOpen) ==
    IF append THEN [offset |-> Len(atOpen), content |-> atOpen]
    ELSE [offset |-> 0, content |-> <<>>]

\* newWriter: the writer over the open file ino, positioned at offset
newWriter(ino, offset, path, append, atOpen) ==
    [live |-> TRUE, path |-> path, file |-> ino, off |-> offset, fdOpen |-> TRUE,
     buf |-> <<>>, bwErr |-> FALSE, size |-> offset,
     closed |-> FALSE, committed |-> FALSE, cancelled |-> FALSE,
     append |-> append, base |-> atOpen, wrote |-> <<>>, failedCommit |-> FALSE,
     call |-> NoCall]

\* the guard of Write and Commit
AlreadyErr(s) ==
    IF s.closed THEN "already closed"
    ELSE IF s.committed THEN "already committed"
    ELSE IF s.cancelled THEN "already cancelled"
    ELSE ""

\* writer.Write(p)
Write(w, p, limit) ==
    LET s == wr[w]
    IN /\ s.live
       /\ s.size + Len(p) <= MaxFile
       /\ s.off + Len(s.buf) + Len(p) <= MaxFile
       /\ UNCHANGED <<entries, names, calls>>
       /\ IF AlreadyErr(s) # ""
          THEN /\ UNCHANGED <<wr, inodes>>
               /\ res' = Result("Write", w, s.path, AlreadyErr(s), 0, <<>>, <<>>)
               /\ Inject(limit # NoLimit, FALSE)
          ELSE LET r == bwWrite(IOState(s, inodes[s.file], limit, FALSE), p, 0)
                   s1 == [r.st.s EXCEPT !.size = s.size + r.n,
                                        !.wrote = s.wrote \o SubSeq(p, 1, r.n)]
               IN /\ wr' = [wr EXCEPT ![w] = s1]
                  /\ inodes' = [inodes EXCEPT ![s.file] = r.st.content]
                  /\ res' = Result("Write", w, s.path, IF r.err THEN "write" ELSE "",
                                   r.n, <<>>, <<>>)
                  /\ Inject(limit # NoLimit, r.st.short)

\* writer.Size()
Size(w) == wr[w].size

\* the first I/O call of Close that fails: the flush after n bytes, the
\* sync, the close, or none
CloseFaults ==
    {[step |-> x, at |-> 0] : x \in {"none", "sync", "close"}}
        \cup {[step |-> "flush", at |-> n] : n \in 0..(BufSize - 1)}

\* writer.Close()
Close(w, flt) ==
    LET s == wr[w]
        fault == flt.step
        limit == IF fault = "flush" THEN flt.at ELSE NoLimit
        f == bwFlush(IOState(s, inodes[s.file], limit, FALSE))
        s1 == f.st.s
        done(s2, err, used) ==
            LET ws == [wr EXCEPT ![w] = s2]
            IN /\ wr' = ws
               /\ inodes' = Reclaim([inodes EXCEPT ![s.file] = f.st.content], names, ws)
               /\ res' = Result("Close", w, s.path, err, 0, <<>>, <<>>)
               /\ Inject(fault # "none", used)
    IN /\ s.live
       /\ UNCHANGED <<entries, names, calls>>
       /\ IF s.closed
          THEN /\ UNCHANGED <<wr, inodes>>
               /\ res' = Result("Close", w, s.path, "already closed", 0, <<>>, <<>>)
               /\ Inject(fault # "none", FALSE)
          ELSE IF f.err THEN done(s1, "flush", f.st.short)
          ELSE IF ~s1.fdOpen THEN done(s1, "sync", FALSE)
          ELSE IF fault = "sync" THEN done(s1, "sync", TRUE)
          ELSE IF fault = "close" THEN done([s1 EXCEPT !.fdOpen = FALSE], "close", TRUE)
          ELSE done([s1 EXCEPT !.fdOpen = FALSE, !.closed = TRUE], "", FALSE)

CancelFaults == {"none", "remove"}

\* a Cancel that closes the file and leaves it in the directory (a variant
\* the removal property must tell from Cancel)
Cancel_keep(w, fault) ==
    LET s == wr[w]
    IN /\ s.live
       /\ UNCHANGED <<entries, names, inodes, calls>>
       /\ wr' = IF s.closed THEN wr
                ELSE [wr EXCEPT ![w] = [s EXCEPT !.cancelled = TRUE, !.fdOpen = FALSE]]
       /\ res' = Result("Cancel", w, s.path, IF s.closed THEN "already closed" ELSE "",
                        0, <<>>, <<>>)
       /\ Inject(fault # "none", FALSE)

\* writer.Cancel()
Cancel(w, fault) ==
    LET s == wr[w]
        s1 == [s EXCEPT !.cancelled = TRUE, !.fdOpen = FALSE]
        ws == [wr EXCEPT ![w] = s1]
        absent == names[s.path] = NoInode
    IN /\ s.live
       /\ UNCHANGED <<entries, calls>>
       /\ IF s.closed
          THEN /\ UNCHANGED <<wr, names, inodes>>
               /\ res' = Result("Cancel", w, s.path, "already closed", 0, <<>>, <<>>)
               /\ Inject(fault # "none", FALSE)
          ELSE /\ wr' = ws
               /\ IF absent
                  THEN \* os.IsNotExist(err) is tolerated
                       /\ names' = names
                       /\ res' = Result("Cancel", w, s.path, "", 0, <<>>, <<>>)
                       /\ Inject(fault # "none", FALSE)
                  ELSE IF fault = "remove"
                  THEN /\ names' = names
                       /\ res' = Result("Cancel", w, s.path, "remove", 0, <<>>, <<>>)
                       /\ Inject(TRUE, TRUE)
                  ELSE /\ names' = [names EXCEPT ![s.path] = NoInode]
                       /\ res' = Result("Cancel", w, s.path, "", 0, <<>>, <<>>)
                       /\ Inject(FALSE, FALSE)
               /\ inodes' = Reclaim(inodes, names', ws)

(***************************************************************************)
(* The remote: the CCD client calls of ccd.go and what the bucket does.    *)
(* Each yields, with its results, whether the fault given took effect.     *)
(***************************************************************************)
\* the entry of a path once CreateOrUpdateEntryByPath recorded hash and size;
\* its identifier is the remote path, its content is what was uploaded last
\* (uploaded tells whether any upload reached the entry)
Entry(rp, hash, size, uploaded, content) ==
    [exists |-> TRUE, entryid |-> rp, hash |-> hash, size |-> size,
     uploaded |-> uploaded, content |-> content]

EntryFaults == {"entry_err", "entry_empty", "entry_noid"}
UploadFaults == {"upload_err", "upload_mismatch"}

\* the Upload-Hash of a response that carries none (Header.Get gives ""),
\* apart from the digest of every byte sequence
NoHash == -1

\* the body of the remote's answer to a content request for an entry it
\* does not have: bytes that are no content of the model
UnknownBody == [i \in 1..(MaxFile + 1) |-> 0]

\* what a remote that answers with another Upload-Hash has stored: a cut body
Corrupt(body) == IF body = <<>> THEN <<0>> ELSE SubSeq(body, 1, Len(body) - 1)

\* createOrUpdateEntry(ctx, client, bucket, path, hash, contentLength)
createOrUpdateEntry(ents, path, hash, contentLength, fault) ==
    LET rp == TrimPrefix(path)
        old == ents[rp]
        new == IF old.exists THEN Entry(rp, hash, contentLength, old.uploaded, old.content)
               ELSE Entry(rp, hash, contentLength, FALSE, <<>>)
        failed(err) == [entries |-> ents, id |-> <<>>, err |-> err, used |-> TRUE]
    IN IF fault = "entry_err" THEN failed("transport")
       ELSE IF fault = "entry_empty" THEN failed("empty response from CCD")
       ELSE IF fault = "entry_noid" THEN failed("failed to determine entry ID")
       ELSE [entries |-> [ents EXCEPT ![rp] = new], id |-> new.entryid, err |-> "",
             used |-> FALSE]

\* an upload that does not compare the Upload-Hash header with the hash (a
\* variant the mismatch property must tell from uploadContent)
uploadContent_noCheck(ents, entryID, hash, body, fault) ==
    LET stored == IF fault = "upload_mismatch" THEN Corrupt(body) ELSE body
    IN IF fault = "upload_err"
       THEN [entries |-> ents, err |-> "transport", uh |-> 0, used |-> TRUE]
       ELSE IF ~ents[entryID].exists
       THEN [entries |-> ents, err |-> "", uh |-> NoHash, used |-> FALSE]
       ELSE [entries |-> [ents EXCEPT ![entryID].content = stored,
                                      ![entryID].uploaded = TRUE],
             err |-> "", uh |-> Md5Hex(stored), used |-> fault = "upload_mismatch"]

\* an upload that reports success when the request failed (a variant the
\* ordering property of Commit must tell from uploadContent)
uploadContent_blind(ents, entryID, hash, body, fault) ==
    LET stored == IF fault = "upload_mismatch" THEN Corrupt(body) ELSE body
        uh == Md5Hex(stored)
    IN IF fault = "upload_err"
       THEN [entries |-> ents, err |-> "", uh |-> 0, used |-> TRUE]
       ELSE IF ~ents[entryID].exists
       THEN [entries |-> ents, err |-> "upload hash mismatch", uh |-> NoHash,
             used |-> FALSE]
       ELSE [entries |-> [ents EXCEPT ![entryID].content = stored,
                                      ![entryID].uploaded = TRUE],
             err |-> IF uh # hash THEN "upload hash mismatch" ELSE "",
             uh |-> uh, used |-> fault = "upload_mismatch"]

\* uploadContent(ctx, client, bucket, entryID, hash, content); a remote
\* that no longer has the entry stores nothing and answers without an
\* Upload-Hash header
uploadContent(ents, entryID, hash, body, fault) ==
    LET stored == IF fault = "upload_mismatch" THEN Corrupt(body) ELSE body
        uh == Md5Hex(stored)
    IN IF fault = "upload_err"
       THEN [entries |-> ents, err |-> "transport", uh |-> 0, used |-> TRUE]
       ELSE IF ~ents[entryID].exists
       THEN [entries |-> ents, err |-> "upload hash mismatch", uh |-> NoHash,
             used |-> FALSE]
       ELSE [entries |-> [ents EXCEPT ![entryID].content = stored,
                                      ![entryID].uploaded = TRUE],
             err |-> IF uh # hash THEN "upload hash mismatch" ELSE "",
             uh |-> uh, used |-> fault = "upload_mismatch"]

LookupFaults == {"lookup_err", "lookup_500", "lookup_nil"}

\* getEntryByPath(ctx, client, bucket, path)
getEntryByPath(ents, path, fault) ==
    LET rp == TrimPrefix(path)
        failed(err, used) == [entry |-> NoEntry, err |-> err, used |-> used]
    IN IF fault = "lookup_err" THEN failed("transport", TRUE)
       ELSE IF ~ents[rp].exists THEN failed("PathNotFound", FALSE)
       ELSE IF fault = "lookup_500" THEN failed("unexpected error", TRUE)
       ELSE IF fault = "lookup_nil" THEN failed("failed to determine entry", TRUE)
       ELSE [entry |-> ents[rp], err |-> "", used |-> FALSE]

\* getEntryContent(ctx, client, bucket, entryID): the body of the response
\* (the status of the response is not looked at)
getEntryContent(ents, entryID, fault) ==
    IF fault = "content_err" THEN [body |-> <<>>, err |-> "transport", used |-> TRUE]
    ELSE IF ~ents[entryID].exists THEN [body |-> UnknownBody, err |-> "", used |-> FALSE]
    ELSE [body |-> ents[entryID].content, err |-> "", used |-> FALSE]

\* a fault of a call: the failing step, and how far the step got
Fault(step, at) == [step |-> step, at |-> at]
NoFault == Fault("none", 0)

\* the offsets a caller of Reader resumes at
Offsets == 0..MaxFile

\* driver.Stat(ctx, path), which makes one request: res.n is the Size of the
\* FileInfo
Stat(path, name, fault) ==
    LET b == bucketIDFromContext(name)
        e == getEntryByPath(entries, path, fault)
        q1 == Req("GetEntryByPath", path, 0, 0, <<>>)
    IN /\ UNCHANGED <<entries, names, inodes, wr, calls>>
       /\ IF b.err # ""
          THEN /\ res' = Result("Stat", 0, path, b.err, 0, <<>>, <<>>)
               /\ Inject(fault # "none", FALSE)
          ELSE IF e.err # ""
          THEN /\ res' = Result("Stat", 0, path, e.err, 0, <<>>, <<q1>>)
               /\ Inject(fault # "none", e.used)
          ELSE /\ res' = Result("Stat", 0, path, "", e.entry.size, <<>>, <<q1>>)
               /\ Inject(fault # "none", FALSE)

(***************************************************************************)
(* driver.Writer and writer.Commit, one step at a time.  Neither takes a   *)
(* lock: between the two file-system calls of driver.Writer, and between   *)
(* the flush, the stat, each read of the file for the digest, the upsert,  *)
(* each read of the file for the body of the upload, the remote's storing  *)
(* of the body and the removal of writer.Commit, the steps of other        *)
(* callers take place.  (MkdirAll, Sync and Seek touch nothing another     *)
(* caller sees and go with the step next to them.)                         *)
(***************************************************************************)
WriterOpenFaults == {"none", "mkdir", "open"}

\* driver.Writer(ctx, dataPath, append) up to os.OpenFile: the file exists
\* and is open from here on; the writer will land in slot w, whose earlier
\* writer object, if any, is abandoned by its caller
WriterOpen(w, dataPath, append, name, fault) ==
    LET b == bucketIDFromContext(name)
        ino == OpenFile(names, wr, dataPath)
        fail(err, used) ==
            /\ UNCHANGED <<wr, names>>
            /\ res' = Result("Writer", w, dataPath, err, 0, <<>>, <<>>)
            /\ Inject(fault # "none", used)
    IN /\ wr[w].call.pc = "idle"
       /\ UNCHANGED <<entries, inodes, calls>>
       /\ IF b.err # "" THEN fail(b.err, FALSE)
          ELSE IF fault = "mkdir" THEN fail("mkdir", TRUE)
          ELSE IF fault = "open" THEN fail("open", TRUE)
          ELSE /\ names' = [names EXCEPT ![dataPath] = ino]
               /\ wr' = [wr EXCEPT ![w].call =
                            [NoCall EXCEPT !.pc = "position", !.ofile = ino,
                                           !.opath = dataPath, !.oappend = append]]
               /\ res' = Pending
               /\ Inject(fault # "none", FALSE)

WriterPositionFaults == {"none", "seek", "truncate"}

\* driver.Writer from f.Seek or f.Truncate on, on the file as it is by now;
\* a failure closes the file
WriterPosition(w, fault) ==
    LET c == wr[w].call
        ino == c.ofile
        p == Position(c.oappend, inodes[ino])
        closed == [wr EXCEPT ![w].call = NoCall]
        ws == [wr EXCEPT ![w] = newWriter(ino, p.offset, c.opath, c.oappend, p.content)]
    IN /\ c.pc = "position"
       /\ UNCHANGED <<entries, names, calls>>
       /\ IF (c.oappend /\ fault = "seek") \/ (~c.oappend /\ fault = "truncate")
          THEN /\ wr' = closed
               /\ inodes' = Reclaim(inodes, names, closed)
               /\ res' = Result("Writer", w, c.opath, fault, 0, <<>>, <<>>)
               /\ Inject(TRUE, TRUE)
          ELSE /\ wr' = ws
               /\ inodes' = Reclaim([inodes EXCEPT ![ino] = p.content], names, ws)
               /\ res' = Result("Writer", w, c.opath, "", 0, <<>>, <<>>)
               /\ Inject(fault # "none", FALSE)

CommitLocalFaults ==
    {[step |-> x, at |-> 0] : x \in {"none", "sync"}}
        \cup {[step |-> "flush", at |-> n] : n \in 0..(BufSize - 1)}

\* writer.Commit up to file.Sync: the guard, and the flush of the buffer to
\* the file
CommitLocal(w, flt) ==
    LET s == wr[w]
        fault == flt.step
        limit == IF fault = "flush" THEN flt.at ELSE NoLimit
        f == bwFlush(IOState(s, inodes[s.file], limit, FALSE))
        s1 == f.st.s
        content == f.st.content
        finish(s2, err, used) ==
            LET ws == [wr EXCEPT ![w] = [s2 EXCEPT !.failedCommit = TRUE]]
            IN /\ wr' = ws
               /\ inodes' = Reclaim([inodes EXCEPT ![s.file] = content], names, ws)
               /\ res' = Result("Commit", w, s.path, err, 0, <<>>, <<>>)
               /\ Inject(fault # "none", used)
    IN /\ s.live /\ s.call.pc = "idle"
       /\ UNCHANGED <<entries, names, calls>>
       /\ IF AlreadyErr(s) # ""
          THEN /\ UNCHANGED <<inodes, wr>>
               /\ res' = Result("Commit", w, s.path, AlreadyErr(s), 0, <<>>, <<>>)
               /\ Inject(fault # "none", FALSE)
          ELSE IF f.err THEN finish(s1, "flush file", f.st.short)
          ELSE IF ~s1.fdOpen THEN finish(s1, "sync file", FALSE)
          ELSE IF fault = "sync" THEN finish(s1, "sync file", TRUE)
          ELSE LET ws == [wr EXCEPT ![w] = [s1 EXCEPT !.call = [NoCall EXCEPT !.pc = "stat"]]]
               IN /\ wr' = ws
                  /\ inodes' = Reclaim([inodes EXCEPT ![s.file] = content], names, ws)
                  /\ res' = Pending
                  /\ Inject(fault # "none", FALSE)

CommitStatFaults == {"none", "stat", "seek_hash"}

\* writer.Commit: file.Stat, the size of the file as it is by now, and the
\* rewind for the digest
CommitStat(w, fault) ==
    LET s == wr[w]
        fail(err) ==
            /\ wr' = [wr EXCEPT ![w] = [s EXCEPT !.failedCommit = TRUE, !.call = NoCall]]
            /\ res' = Result("Commit", w, s.path, err, 0, <<>>, <<>>)
            /\ Inject(TRUE, TRUE)
    IN /\ s.call.pc = "stat"
       /\ fault \in CommitStatFaults
       /\ UNCHANGED <<entries, names, inodes, calls>>
       /\ IF fault = "stat" THEN fail("stat file")
          ELSE IF fault = "seek_hash" THEN fail("rewind for hash")
          ELSE /\ wr' = [wr EXCEPT ![w] =
                            [s EXCEPT !.off = 0,
                                      !.call = [s.call EXCEPT !.pc = "hash",
                                                              !.csize = Len(inodes[s.file])]]]
               /\ res' = Pending
               /\ Inject(FALSE, FALSE)

\* os.File.Read through a descriptor at offset off, into a buffer of ReadSize
\* bytes: the bytes the file holds from there on by now, none at its end
FileRead(content, off) == SubSeq(content, off + 1, Min(off + ReadSize, Len(content)))

CommitHashFaults == {"none", "hash", "seek_upload"}

\* writer.Commit, one turn of io.Copy(h, w.file): a Read of the file as it
\* is by now, at the descriptor's offset, written to the digest; at the end
\* of the file the digest is taken and the file rewound for the upload
CommitHash(w, fault) ==
    LET s == wr[w]
        c == s.call
        got == FileRead(inodes[s.file], s.off)
        fail(err) ==
            /\ wr' = [wr EXCEPT ![w] = [s EXCEPT !.failedCommit = TRUE, !.call = NoCall]]
            /\ res' = Result("Commit", w, s.path, err, 0, <<>>, <<>>)
            /\ Inject(TRUE, TRUE)
    IN /\ c.pc = "hash"
       /\ fault \in CommitHashFaults
       /\ UNCHANGED <<entries, names, inodes, calls>>
       /\ IF fault = "hash" THEN fail("file hash")
          ELSE IF got # <<>>
          THEN /\ fault = "none"
               /\ wr' = [wr EXCEPT ![w] =
                            [s EXCEPT !.off = s.off + Len(got),
                                      !.call = [c EXCEPT !.cread = c.cread \o got]]]
               /\ res' = Pending
               /\ Inject(FALSE, FALSE)
          ELSE IF fault = "seek_upload" THEN fail("rewind for upload")
          ELSE /\ wr' = [wr EXCEPT ![w] =
                            [s EXCEPT !.off = 0,
                                      !.call = [c EXCEPT !.pc = "upsert",
                                                         !.chash = Md5Hex(c.cread),
                                                         !.cread = <<>>]]]
               /\ res' = Pending
               /\ Inject(FALSE, FALSE)

CommitUpsertFaults == {"none"} \cup EntryFaults

\* writer.Commit: the entry upsert, with the digest and size computed before
CommitUpsert(w, fault) ==
    LET s == wr[w]
        c == s.call
        e == createOrUpdateEntry(entries, s.path, c.chash, c.csize, fault)
        q1 == Req("CreateOrUpdateEntryByPath", s.path, c.chash, c.csize, <<>>)
    IN /\ c.pc = "upsert"
       /\ fault \in CommitUpsertFaults
       /\ UNCHANGED <<names, inodes, calls>>
       /\ IF e.err # ""
          THEN /\ UNCHANGED entries
               /\ wr' = [wr EXCEPT ![w] = [s EXCEPT !.failedCommit = TRUE,
                                                    !.call = NoCall]]
               /\ res' = Result("Commit", w, s.path, "create/update entry", 0, <<>>,
                                <<q1>>)
               /\ Inject(TRUE, e.used)
          ELSE /\ entries' = e.entries
               /\ wr' = [wr EXCEPT ![w].call = [c EXCEPT !.pc = "upload", !.cid = e.id,
                                                         !.creqs = <<q1>>]]
               /\ res' = Pending
               /\ Inject(fault # "none", FALSE)

CommitSendFaults == {"none", "upload_err"}

\* writer.Commit, the upload request on this side, whose body is w.file: one
\* Read of the file as it is by now, at the descriptor's offset, sent on.
\* The Read that meets the end of the file ends the body: the request is on
\* its way to the remote with the bytes read.  A request that fails in
\* transport got as far as the bytes read and stores nothing.  The HTTP
\* client closes the body of a request it was given, sent or failed: the
\* writer's descriptor is closed once the body has ended
CommitUpload(w, fault) ==
    LET s == wr[w]
        c == s.call
        got == FileRead(inodes[s.file], s.off)
        body == c.cread
        u == uploadContent(entries, c.cid, c.chash, body, fault)
        q2 == Req("UploadContent", c.cid, u.uh, 0, body)
        failed == [wr EXCEPT ![w] = [s EXCEPT !.fdOpen = FALSE, !.failedCommit = TRUE,
                                              !.call = NoCall]]
        sent == [wr EXCEPT ![w] = [s EXCEPT !.fdOpen = FALSE,
                                            !.call = [c EXCEPT !.pc = "answer"]]]
    IN /\ c.pc = "upload"
       /\ fault \in CommitSendFaults
       /\ UNCHANGED <<entries, names, calls>>
       /\ IF fault = "upload_err"
          THEN /\ wr' = failed
               /\ inodes' = Reclaim(inodes, names, failed)
               /\ res' = Result("Commit", w, s.path, "upload content: transport",
                                0, <<>>, c.creqs \o <<q2>>)
               /\ Inject(TRUE, u.used)
          ELSE IF got # <<>>
          THEN /\ UNCHANGED inodes
               /\ wr' = [wr EXCEPT ![w] =
                            [s EXCEPT !.off = s.off + Len(got),
                                      !.call = [c EXCEPT !.cread = c.cread \o got]]]
               /\ res' = Pending
               /\ Inject(FALSE, FALSE)
          ELSE /\ wr' = sent
               /\ inodes' = Reclaim(inodes, names, sent)
               /\ res' = Pending
               /\ Inject(FALSE, FALSE)

CommitUploadFaults == {"none"} \cup UploadFaults

\* writer.Commit, the upload request at the remote and its answer: the
\* remote stores the body that was sent in the bucket as it is by now and
\* answers with the Upload-Hash; w.committed = true when that is the digest
\* (the handling of the answer touches the caller's own writer only and goes
\* with the answer)
CommitUploadAnswer(w, fault) ==
    LET s == wr[w]
        c == s.call
        body == c.cread
        u == uploadContent(entries, c.cid, c.chash, body, fault)
        q2 == Req("UploadContent", c.cid, u.uh, 0, body)
    IN /\ c.pc = "answer"
       /\ fault \in CommitUploadFaults
       /\ UNCHANGED <<names, inodes, calls>>
       /\ entries' = u.entries
       /\ IF u.err # ""
          THEN /\ wr' = [wr EXCEPT ![w] = [s EXCEPT !.failedCommit = TRUE,
                                                    !.call = NoCall]]
               /\ res' = Result("Commit", w, s.path,
                                IF u.err = "transport"
                                THEN "upload content: transport"
                                ELSE "upload content: upload hash mismatch",
                                0, <<>>, c.creqs \o <<q2>>)
               /\ Inject(fault # "none", u.used)
          ELSE /\ wr' = [wr EXCEPT ![w] =
                            [s EXCEPT !.committed = TRUE,
                                      !.call = [c EXCEPT !.pc = "remove", !.cread = <<>>,
                                                         !.creqs = c.creqs \o <<q2>>]]]
               /\ res' = Pending
               /\ Inject(fault # "none", u.used)

CommitRemoveFaults == {"none", "remove"}

\* writer.Commit: os.Remove of whatever the staging path names by now
CommitRemove(w, fault) ==
    LET s == wr[w]
        c == s.call
        absent == names[s.path] = NoInode
        err == IF absent \/ fault = "remove" THEN "remove" ELSE ""
        ws == [wr EXCEPT ![w] = [s EXCEPT !.failedCommit = @ \/ err # "",
                                          !.call = NoCall]]
    IN /\ c.pc = "remove"
       /\ fault \in CommitRemoveFaults
       /\ UNCHANGED <<entries, calls>>
       /\ names' = IF err = "" THEN [names EXCEPT ![s.path] = NoInode] ELSE names
       /\ wr' = ws
       /\ inodes' = Reclaim(inodes, names', ws)
       /\ res' = Result("Commit", w, s.path, err, 0, <<>>, c.creqs)
       /\ Inject(fault # "none", ~absent /\ fault = "remove")

(***************************************************************************)
(* The remote's listing of a bucket, page by page.                         *)
(***************************************************************************)
\* the order in which the remote lists the paths of a bucket
PathOrder == <<TrimPrefix(PathA), TrimPrefix(PathAB), TrimPrefix(PathC)>>

\* the release entries of the bucket under the path prefix, in the remote's order
Listing(ents, prefix) ==
    LET under(rp) == ents[rp].exists /\ IsUnder(rp, prefix)
        sel == SelectSeq(PathOrder, under)
    IN [i \in 1..Len(sel) |-> ents[sel[i]]]

\* GetDiffEntries(bucket, Path, Page, PerPage): page number page of the
\* listing, the remote serving pageSize entries a page
GetDiffEntries(ents, prefix, page, pageSize) ==
    LET all == Listing(ents, prefix)
    IN SubSeq(all, (page - 1) * pageSize + 1, Min(page * pageSize, Len(all)))

\* the page size getEntries asks for (PerPage: utils.IntPtr(1))
PerPage == 1

ListSteps == {"list_err", "list_404", "list_500"}

\* a page answered with a status that is neither 200, 404 nor 500 (JSON200,
\* JSON404 and JSON500 all nil)
ListOther == "list_other"

\* a page request whose failure is taken for success (a variant the
\* termination property must tell from ListErr)
ListErr_lenient(fault) == ""

\* the error getEntries returns for the answer to a page request, none for
\* an answer it goes on with
ListErr(fault) ==
    IF fault = "list_err" THEN "transport"
    ELSE IF fault = "list_404" THEN "PathNotFound"
    ELSE IF fault = "list_500" THEN "unexpected error"
    ELSE ""

\* a loop that stops after its first page request (a variant the listing
\* property must tell from EndOfListing)
EndOfListing_first(got, fault) == TRUE

\* the break of the loop of getEntries: the answer carries no JSON200 body,
\* or a page without entries
EndOfListing(got, fault) == fault = ListOther \/ got = <<>>

DeleteSteps == {"del_err", "del_500", "del_status"}

\* a Delete that looks at the transport error and the reported server
\* error only and takes every other status for a deletion done (a variant
\* the partial-failure property must tell from DeleteErr)
DeleteErr_noStatus(fault) ==
    IF fault = "del_err" THEN "transport"
    ELSE IF fault = "del_500" THEN "unexpected error"
    ELSE ""

\* the error Delete returns for the answer to a DeleteEntry request
DeleteErr(fault) ==
    IF fault = "del_err" THEN "transport"
    ELSE IF fault = "del_500" THEN "unexpected error"
    ELSE IF fault = "del_status" THEN "unexpected response"
    ELSE ""

\* the bucket after a DeleteEntry request for the entry id: a request that
\* failed removed nothing
DeleteEntry(ents, id, fault) ==
    IF fault \in DeleteSteps THEN ents ELSE [ents EXCEPT ![id] = NoEntry]

\* the source and the destination of a Move, from the two paths its result
\* records one after the other (each starts with the separator)
MoveSrc(pp) ==
    LET k == CHOOSE k \in 2..Len(pp) : pp[k] = "/" /\ \A j \in 2..(k - 1) : pp[j] # "/"
    IN SubSeq(pp, 1, k - 1)
MoveDst(pp) == SubSeq(pp, Len(MoveSrc(pp)) + 1, Len(pp))

(***************************************************************************)
(* The driver's bucket operations, one remote request at a time.  The      *)
(* driver takes no lock and waits on the network at every request: between *)
(* two requests of a call the requests of other callers reach the bucket.  *)
(* Move is GetContent, PutContent and Delete one after the other.          *)
(***************************************************************************)
\* the call of caller c returns
Return(c, f, err, val, reqs) ==
    /\ calls' = [calls EXCEPT ![c] = Idle]
    /\ res' = Result(f.op, 0, IF f.op = "Move" THEN f.path \o f.dst ELSE f.path,
                     err, 0, val, reqs)

\* the call of caller c goes on to its next request
GoOn(c, f) ==
    /\ calls' = [calls EXCEPT ![c] = f]
    /\ res' = Pending

\* the start of a call: bucketIDFromContext, and what comes before the first
\* request (PutContent: the digest of the content)
Begin(c, f, name) ==
    LET b == bucketIDFromContext(name)
    IN /\ calls[c].pc = "idle"
       /\ UNCHANGED <<entries, names, inodes, wr, faults>>
       /\ IF b.err # "" THEN Return(c, f, b.err, <<>>, <<>>) ELSE GoOn(c, f)

\* driver.GetContent up to its first request
GetContentCall(c, path, name) ==
    Begin(c, [Idle EXCEPT !.op = "GetContent", !.path = path, !.pc = "lookup"], name)

\* driver.Reader up to its first request
ReaderCall(c, path, offset, name) ==
    Begin(c, [Idle EXCEPT !.op = "Reader", !.path = path, !.offset = offset,
                          !.pc = "lookup"], name)

\* driver.PutContent up to its first request
PutContentCall(c, path, content, name) ==
    Begin(c, [Idle EXCEPT !.op = "PutContent", !.path = path, !.body = content,
                          !.hash = Md5Hex(content), !.pc = "upsert"], name)

\* driver.List up to its first request
ListCall(c, listPath, name, pageSize) ==
    Begin(c, [Idle EXCEPT !.op = "List", !.path = listPath, !.page = 1,
                          !.per = pageSize, !.pc = "page"], name)

\* driver.Delete up to its first request
DeleteCall(c, path, name, pageSize) ==
    Begin(c, [Idle EXCEPT !.op = "Delete", !.path = path, !.page = 1,
                          !.per = pageSize, !.pc = "page"], name)

\* driver.Move up to its first request
MoveCall(c, sourcePath, destPath, name, pageSize) ==
    Begin(c, [Idle EXCEPT !.op = "Move", !.path = sourcePath, !.dst = destPath,
                          !.per = pageSize, !.pc = "lookup"], name)

\* getEntryByPath, in GetContent, Reader and Move
GetEntryByPathStep(c, fault) ==
    LET f == calls[c]
        e == getEntryByPath(entries, f.path, fault)
        reqs == Append(f.reqs, Req("GetEntryByPath", f.path, 0, 0, <<>>))
    IN /\ f.pc = "lookup"
       /\ UNCHANGED <<entries, names, inodes, wr>>
       /\ IF e.err # "" THEN Return(c, f, e.err, <<>>, reqs)
          ELSE GoOn(c, [f EXCEPT !.pc = "content", !.id = e.entry.entryid,
                                 !.reqs = reqs])
       /\ Inject(fault # "none", e.used)

\* the content request of GetContent (getEntryContent), Reader and Move, for
\* the entry the lookup named; Move goes on to write what the response holds
GetContentStep(c, fault) ==
    LET f == calls[c]
        g == getEntryContent(entries, f.id, fault)
        from == IF entries[f.id].exists THEN f.offset ELSE 0
        body == SubSeq(g.body, from + 1, Len(g.body))
        reqs == Append(f.reqs, Req("GetContent", f.id, 0, f.offset, <<>>))
    IN /\ f.pc = "content"
       /\ fault \in {"none", "content_err"}
       /\ UNCHANGED <<entries, names, inodes, wr>>
       /\ IF g.err # "" THEN Return(c, f, g.err, <<>>, reqs)
          ELSE IF f.op # "Move" THEN Return(c, f, "", body, reqs)
          ELSE GoOn(c, [f EXCEPT !.pc = "upsert", !.body = g.body,
                                 !.hash = Md5Hex(g.body), !.reqs = reqs])
       /\ Inject(fault # "none", g.used)

\* createOrUpdateEntry, in PutContent and Move
CreateOrUpdateEntryStep(c, fault) ==
    LET f == calls[c]
        path == IF f.op = "Move" THEN f.dst ELSE f.path
        e == createOrUpdateEntry(entries, path, f.hash, Len(f.body), fault)
        reqs == Append(f.reqs, Req("CreateOrUpdateEntryByPath", path, f.hash,
                                   Len(f.body), <<>>))
    IN /\ f.pc = "upsert"
       /\ fault \in {"none"} \cup EntryFaults
       /\ UNCHANGED <<names, inodes, wr>>
       /\ entries' = e.entries
       /\ IF e.err # "" THEN Return(c, f, e.err, f.body, reqs)
          ELSE GoOn(c, [f EXCEPT !.pc = "upload", !.id = e.id, !.reqs = reqs])
       /\ Inject(fault # "none", e.used)

\* uploadContent, in PutContent and Move, to the entry the upsert named
UploadContentStep(c, fault) ==
    LET f == calls[c]
        u == uploadContent(entries, f.id, f.hash, f.body, fault)
        reqs == Append(f.reqs, Req("UploadContent", f.id, u.uh, 0, f.body))
    IN /\ f.pc = "upload"
       /\ fault \in {"none"} \cup UploadFaults
       /\ UNCHANGED <<names, inodes, wr>>
       /\ entries' = u.entries
       /\ IF u.err # "" \/ f.op = "PutContent" THEN Return(c, f, u.err, f.body, reqs)
          ELSE GoOn(c, [f EXCEPT !.pc = "page", !.page = 1, !.list = <<>>,
                                 !.reqs = reqs])
       /\ Inject(fault # "none", u.used)

\* one turn of the loop of getEntries, in List, Delete and Move: the request
\* for the next page of the bucket as it is by now
GetDiffEntriesStep(c, fault) ==
    LET f == calls[c]
        got == GetDiffEntries(entries, TrimPrefix(f.path), f.page, f.per)
        reqs == Append(f.reqs, Req("GetDiffEntries", TrimPrefix(f.path), 0, f.page,
                                   <<>>))
        paths == [i \in 1..Len(f.list) |-> JoinRoot(f.list[i].entryid)]
        val == IF f.op = "Move" THEN f.body ELSE <<>>
    IN /\ f.pc = "page"
       /\ fault \in {"none", ListOther} \cup ListSteps
       /\ UNCHANGED <<entries, names, inodes, wr>>
       /\ IF ListErr(fault) # ""
          THEN \* List returns the error; Delete, also in Move, returns nil
               Return(c, f, IF f.op = "List" THEN ListErr(fault) ELSE "", val, reqs)
          ELSE IF EndOfListing(got, fault)
          THEN IF f.op = "List" THEN Return(c, f, "", paths, reqs)
               ELSE IF f.list = <<>> THEN Return(c, f, "", val, reqs)
               ELSE GoOn(c, [f EXCEPT !.pc = "delete", !.i = 1, !.reqs = reqs])
          ELSE GoOn(c, [f EXCEPT !.list = f.list \o got, !.page = f.page + 1,
                                 !.reqs = reqs])
       /\ Inject(fault # "none", fault # "none")

\* one turn of the loop of Delete, in Delete and Move: the DeleteEntry
\* request for the next entry of the listing; the status the remote gives
\* for an entry it no longer has is the fault given
DeleteEntryStep(c, fault) ==
    LET f == calls[c]
        id == f.list[f.i].entryid
        reqs == Append(f.reqs, Req("DeleteEntry", id, 0, 0, <<>>))
        val == IF f.op = "Move" THEN f.body ELSE <<>>
    IN /\ f.pc = "delete"
       /\ fault \in {"none"} \cup DeleteSteps
       /\ UNCHANGED <<names, inodes, wr>>
       /\ entries' = DeleteEntry(entries, id, fault)
       /\ IF DeleteErr(fault) # "" THEN Return(c, f, DeleteErr(fault), val, reqs)
          ELSE IF f.i = Len(f.list) THEN Return(c, f, "", val, reqs)
          ELSE GoOn(c, [f EXCEPT !.i = f.i + 1, !.reqs = reqs])
       /\ Inject(fault # "none", fault # "none")

(***************************************************************************)
(* Callers.  A caller is in one call at a time; the calls of different     *)
(* callers go on side by side.                                             *)
(***************************************************************************)
\* the caller of writer slot w is in no Writer or Commit call
InNoCall(w) == wr[w].call.pc = "idle"

\* no caller is in a call
AllIdle ==
    /\ \A w \in Writers : InNoCall(w)
    /\ \A c \in Callers : calls[c].pc = "idle"

\* the history of a lone caller: the step that starts a call records the
\* bucket and the count of faults it starts from, the step that returns
\* from it drops them
Track ==
    start' = IF res' # Pending THEN NoStart
             ELSE IF AllIdle THEN [entries |-> entries, faults |-> faults]
             ELSE start

\* no history is kept where several callers are under way
NoTrack == UNCHANGED start

\* the step A taken by a lone caller, and by one caller among others
Lone(A) == A /\ Track
Among(A) == A /\ NoTrack

(***************************************************************************)
(* One caller driving one writer at a time on one path.                    *)
(***************************************************************************)
Next ==
    \/ Lone(\E append \in BOOLEAN, name \in CtxNames, fault \in WriterOpenFaults :
                WriterOpen(1, PathA, append, name, fault))
    \/ Lone(\E fault \in WriterPositionFaults : WriterPosition(1, fault))
    \/ Lone(InNoCall(1) /\ \E p \in Chunks, limit \in Limits : Write(1, p, limit))
    \/ Lone(InNoCall(1) /\ \E flt \in CloseFaults : Close(1, flt))
    \/ Lone(InNoCall(1) /\ \E fault \in CancelFaults : Cancel(1, fault))
    \/ Lone(\E flt \in CommitLocalFaults : CommitLocal(1, flt))
    \/ Lone(\E fault \in CommitStatFaults : CommitStat(1, fault))
    \/ Lone(\E fault \in CommitHashFaults : CommitHash(1, fault))
    \/ Lone(\E fault \in CommitUpsertFaults : CommitUpsert(1, fault))
    \/ Lone(\E fault \in CommitSendFaults : CommitUpload(1, fault))
    \/ Lone(\E fault \in CommitUploadFaults : CommitUploadAnswer(1, fault))
    \/ Lone(\E fault \in CommitRemoveFaults : CommitRemove(1, fault))

Spec == Init /\ [][Next]_vars

(***************************************************************************)
(* One caller of the driver's bucket operations on three paths.            *)
(***************************************************************************)
PageSizes == 1..MaxPage

NextDriver ==
    \/ Lone(\E path \in DPaths, name \in CtxNames : GetContentCall(1, path, name))
    \/ Lone(\E path \in DPaths, content \in PutChunks, name \in CtxNames :
                PutContentCall(1, path, content, name))
    \/ Lone(\E path \in DPaths, name \in CtxNames, pageSize \in PageSizes :
                ListCall(1, path, name, pageSize))
    \/ Lone(\E path \in DPaths \cup {PathRoot}, name \in CtxNames :
                DeleteCall(1, path, name, PerPage))
    \/ Lone(\E src \in DPaths, dst \in DPaths, name \in CtxNames :
                MoveCall(1, src, dst, name, PerPage))
    \/ Lone(\E fault \in LookupFaults \cup {"none"} : GetEntryByPathStep(1, fault))
    \/ Lone(\E fault \in {"none", "content_err"} : GetContentStep(1, fault))
    \/ Lone(\E fault \in CommitUpsertFaults : CreateOrUpdateEntryStep(1, fault))
    \/ Lone(\E fault \in CommitUploadFaults : UploadContentStep(1, fault))
    \/ Lone(\E fault \in {"none", ListOther} \cup ListSteps : GetDiffEntriesStep(1, fault))
    \/ Lone(\E fault \in {"none"} \cup DeleteSteps : DeleteEntryStep(1, fault))

SpecDriver == Init /\ [][NextDriver]_vars

(***************************************************************************)
(* Two callers of the driver on one bucket, request by request: the first  *)
(* reads, lists, moves and deletes, the second stores and deletes at /a    *)
(* meanwhile.  No lock and no transaction spans the requests of a call.    *)
(***************************************************************************)
SharedPaths == {PathA, PathC}

NextShared ==
    \/ Among(GetContentCall(1, PathA, "bkt"))
    \/ Among(ReaderCall(1, PathA, 0, "bkt"))
    \/ Among(ListCall(1, PathRoot, "bkt", PerPage))
    \/ Among(DeleteCall(1, PathRoot, "bkt", PerPage))
    \/ Among(MoveCall(1, PathA, PathC, "bkt", PerPage))
    \/ Among(\E path \in SharedPaths, content \in PutChunks :
                PutContentCall(1, path, content, "bkt"))
    \/ Among(\E content \in PutChunks : PutContentCall(2, PathA, content, "bkt"))
    \/ Among(DeleteCall(2, PathA, "bkt", PerPage))
    \/ \E c \in Callers :
        \/ Among(GetEntryByPathStep(c, "none"))
        \/ Among(GetContentStep(c, "none"))
        \/ Among(CreateOrUpdateEntryStep(c, "none"))
        \/ Among(UploadContentStep(c, "none"))
        \/ Among(GetDiffEntriesStep(c, "none"))
        \/ Among(DeleteEntryStep(c, "none"))

SpecShared == Init /\ [][NextShared]_vars

(***************************************************************************)
(* The two ways to publish on one path: a caller driving a writer to its   *)
(* Commit, and another storing contents with PutContent meanwhile; the     *)
(* remote fails their requests.                                            *)
(***************************************************************************)
NextUpload ==
    \/ Among(\E append \in BOOLEAN : WriterOpen(1, PathA, append, "bkt", "none"))
    \/ Among(WriterPosition(1, "none"))
    \/ Among(InNoCall(1) /\ \E p \in PutChunks : Write(1, p, NoLimit))
    \/ Among(CommitLocal(1, NoFault))
    \/ Among(CommitStat(1, "none"))
    \/ Among(CommitHash(1, "none"))
    \/ Among(\E fault \in CommitUpsertFaults : CommitUpsert(1, fault))
    \/ Among(\E fault \in CommitSendFaults : CommitUpload(1, fault))
    \/ Among(\E fault \in CommitUploadFaults : CommitUploadAnswer(1, fault))
    \/ Among(CommitRemove(1, "none"))
    \/ Among(\E content \in PutChunks, name \in CtxNames :
                PutContentCall(1, PathA, content, name))
    \/ Among(\E fault \in CommitUpsertFaults : CreateOrUpdateEntryStep(1, fault))
    \/ Among(\E fault \in CommitUploadFaults : UploadContentStep(1, fault))

SpecUpload == Init /\ [][NextUpload]_vars

(***************************************************************************)
(* Callers of every driver method, with and without a bucket name in the   *)
(* request context: one makes the bucket calls, one opens and fills a      *)
(* writer, one asks for the Stat of paths.                                 *)
(***************************************************************************)
\* the one content these callers store and stage
OneChunk == {<<1>>}

\* the start of a call of one of the eight driver methods that look up the
\* bucket, made with one of the values names_ for the name variable
DriverCall(names_) ==
    \/ Among(\E path \in DPaths, name \in names_ : GetContentCall(1, path, name))
    \/ Among(\E path \in DPaths, content \in OneChunk, name \in names_ :
                PutContentCall(1, path, content, name))
    \/ Among(\E path \in DPaths, offset \in Offsets, name \in names_ :
                ReaderCall(1, path, offset, name))
    \/ Among(\E append \in BOOLEAN, name \in names_ :
                WriterOpen(1, PathA, append, name, "none"))
    \/ Among(\E path \in DPaths, name \in names_ : Stat(path, name, "none"))
    \/ Among(\E path \in DPaths \cup {PathRoot}, name \in names_ :
                ListCall(1, path, name, PerPage))
    \/ Among(\E src \in DPaths, dst \in DPaths, name \in names_ :
                MoveCall(1, src, dst, name, PerPage))
    \/ Among(\E path \in DPaths \cup {PathRoot}, name \in names_ :
                DeleteCall(1, path, name, PerPage))

NextCtx ==
    \/ DriverCall(CtxNames)
    \/ Among(GetEntryByPathStep(1, "none"))
    \/ Among(GetContentStep(1, "none"))
    \/ Among(CreateOrUpdateEntryStep(1, "none"))
    \/ Among(UploadContentStep(1, "none"))
    \/ Among(GetDiffEntriesStep(1, "none"))
    \/ Among(DeleteEntryStep(1, "none"))
    \/ Among(WriterPosition(1, "none"))
    \/ Among(InNoCall(1) /\ \E p \in OneChunk : Write(1, p, NoLimit))

SpecCtx == Init /\ [][NextCtx]_vars

(***************************************************************************)
(* Two callers, each driving its own writer, on the same path.             *)
(***************************************************************************)
\* (each caller opens its writer once and writes it byte by byte, the first
\* the byte 1 and the second the byte 2, so that a byte tells whose it is;
\* the steps of the two callers' Writer and Commit calls fall between each
\* other)
NextRace ==
    \E w \in Writers :
        \/ Among(~wr[w].live /\ \E append \in BOOLEAN :
                                    WriterOpen(w, PathA, append, "bkt", "none"))
        \/ Among(WriterPosition(w, "none"))
        \/ Among(InNoCall(w) /\ Write(w, <<w>>, NoLimit))
        \/ Among(CommitLocal(w, NoFault))
        \/ Among(CommitStat(w, "none"))
        \/ Among(CommitHash(w, "none"))
        \/ Among(CommitUpsert(w, "none"))
        \/ Among(CommitUpload(w, "none"))
        \/ Among(CommitUploadAnswer(w, "none"))
        \/ Among(CommitRemove(w, "none"))
        \/ Among(InNoCall(w) /\ Cancel(w, "none"))

SpecRace == Init /\ [][NextRace]_vars

(***************************************************************************)
(* Three callers on three paths: two drive a writer each, one stores       *)
(* contents with PutContent.                                               *)
(***************************************************************************)
\* the path of the caller that drives writer slot w
PathOf(w) == IF w = 1 THEN PathA ELSE PathC

\* (each caller opens its writer once and writes it byte by byte, the writer
\* of /a the byte 1 and the writer of /c the byte 2, so that a byte tells
\* whose it is; the callers' file-system steps and requests interleave)
NextPaths ==
    \/ \E w \in Writers :
        \/ Among(~wr[w].live /\ \E append \in BOOLEAN :
                                    WriterOpen(w, PathOf(w), append, "bkt", "none"))
        \/ Among(WriterPosition(w, "none"))
        \/ Among(InNoCall(w) /\ Write(w, <<w>>, NoLimit))
        \/ Among(CommitLocal(w, NoFault))
        \/ Among(CommitStat(w, "none"))
        \/ Among(CommitHash(w, "none"))
        \/ Among(CommitUpsert(w, "none"))
        \/ Among(CommitUpload(w, "none"))
        \/ Among(CommitUploadAnswer(w, "none"))
        \/ Among(CommitRemove(w, "none"))
        \/ Among(InNoCall(w) /\ Cancel(w, "none"))
    \/ Among(\E content \in PutChunks : PutContentCall(1, PathAB, content, "bkt"))
    \/ Among(CreateOrUpdateEntryStep(1, "none"))
    \/ Among(UploadContentStep(1, "none"))

SpecPaths == Init /\ [][NextPaths]_vars

(***************************************************************************)
(* Callers deriving the bucket of a storage path.                          *)
(***************************************************************************)
\* a call of bucketFromPath: res.val is the bucket, or the path the error names
BucketFromPath(path) ==
    LET r == bucketFromPath(path)
    IN /\ res' = Result("bucketFromPath", 0, path, r.err, 0,
                        IF r.err = "" THEN r.bucket ELSE r.path, <<>>)
       /\ UNCHANGED <<entries, names, inodes, wr, faults, calls>>

\* (the function keeps no state: one call in a behaviour shows them all)
NextBucket == Among(res.op = "init" /\ \E path \in TokenPaths : BucketFromPath(path))

SpecBucket == Init /\ [][NextBucket]_vars

(***************************************************************************)
(* The claims.                                                             *)
(***************************************************************************)
\* the errors of the guards of Write, Commit, Close and Cancel
GuardErrs == {"already closed", "already committed", "already cancelled"}

\* the staging file of writer w is still in the scratch directory
Staged(w) == names[wr[w].path] = wr[w].file

\* what a GetContent of the path returns from the bucket ents when its
\* lookup and its content request are served one after the other, no fault
\* injected
Resolve(ents, path) ==
    LET e == getEntryByPath(ents, path, "none")
    IN IF e.err # "" THEN [val |-> <<>>, err |-> e.err]
       ELSE [val |-> getEntryContent(ents, e.entry.entryid, "none").body, err |-> ""]

\* what a GetContent of the path would return in this state
ReadBack(path) == Resolve(entries, path)

\* where a lone caller's call started from: the bucket and the count of
\* faults before the first step of the call that takes the step
Before == IF AllIdle THEN [entries |-> entries, faults |-> faults] ELSE start

\* C1: in every reachable state of a writer, at most one of committed and
\* cancelled is true.
C1_AtMostOneTerminal ==
    \A w \in Writers : ~(wr[w].committed /\ wr[w].cancelled)

\* C2: once a writer is committed or cancelled, every later Write, Commit or
\* Cancel on it returns an error, issues no remote request, and changes
\* neither the staging files nor the writer's flags.
C2_TerminalCallsFail ==
    [][\A w \in Writers :
        (/\ wr[w].live /\ InNoCall(w)
         /\ wr[w].committed \/ wr[w].cancelled
         /\ res'.w = w
         /\ res'.op \in {"Write", "Commit", "Cancel"})
        => (/\ res'.err # ""
            /\ res'.reqs = <<>>
            /\ names' = names
            /\ inodes' = inodes
            /\ wr'[w].closed = wr[w].closed
            /\ wr'[w].committed = wr[w].committed
            /\ wr'[w].cancelled = wr[w].cancelled)]_vars

\* C3: whenever Commit returns the error of a failed sub-step, the writer is
\* not marked committed and its staging file is still in place.
C3_FailedCommitStaysOpen ==
    \A w \in Writers :
        (res.op = "Commit" /\ res.w = w /\ res.err \notin GuardErrs \cup {""})
        => (~wr[w].committed /\ Staged(w))

\* C4: a writer opened with append=false whose writes accepted the bytes b
\* and whose Commit, its first attempt, succeeds: GetContent of the path then
\* returns exactly b, and the entry upsert carried MD5(b) and Len(b).
C4_RoundTrip ==
    \A w \in Writers :
        (/\ res.op = "Commit" /\ res.w = w /\ res.err = ""
         /\ ~wr[w].append /\ ~wr[w].failedCommit)
        => (/\ ReadBack(wr[w].path).err = ""
            /\ ReadBack(wr[w].path).val = wr[w].wrote
            /\ res.reqs[1].req = "CreateOrUpdateEntryByPath"
            /\ res.reqs[1].hash = Md5Hex(wr[w].wrote)
            /\ res.reqs[1].size = Len(wr[w].wrote))

\* a successful first Commit of MaxFile bytes written to a non-append writer
\* in more than one Write call
C4_Witness ==
    /\ res.op = "Commit" /\ res.err = "" /\ res.w = 1
    /\ ~wr[1].append /\ ~wr[1].failedCommit
    /\ Len(wr[1].wrote) = MaxFile
    /\ wr[1].wrote[1] # wr[1].wrote[MaxFile]
    /\ ReadBack(PathA).val = wr[1].wrote

\* C5: when the Upload-Hash header of the upload's response differs from the
\* hash computed locally, PutContent returns an error, and Commit returns an
\* error, leaves the writer not committed and its staging file in place.
C5_HashMismatch ==
    (/\ res.op \in {"PutContent", "Commit"}
     /\ Len(res.reqs) = 2
     /\ res.reqs[2].hash # res.reqs[1].hash)
    => (/\ res.err # ""
        /\ res.op = "Commit" => (~wr[res.w].committed /\ Staged(res.w)))

\* a Commit of staged bytes whose upload was answered with another hash
C5_Witness ==
    /\ res.op = "Commit" /\ Len(res.reqs) = 2
    /\ res.reqs[2].req = "UploadContent"
    /\ res.reqs[2].hash # res.reqs[1].hash
    /\ wr[res.w].wrote # <<>>
    /\ res.err = "upload content: upload hash mismatch"

\* C6 as stated: after a Cancel call on a writer in any state no staging file
\* is left at the writer's path, and Cancel returns no error when the file
\* was already absent.
C6_CancelAlwaysRemoves ==
    [][\A w \in Writers :
        (wr[w].live /\ res'.op = "Cancel" /\ res'.w = w)
        => (/\ names'[wr[w].path] = NoInode
            /\ names[wr[w].path] = NoInode => res'.err = "")]_vars

\* C6: a Cancel on a writer that is not closed returns no error when the
\* staging file is already absent, and whenever it returns no error no
\* staging file is left at the writer's path.
C6_CancelRemoves ==
    [][\A w \in Writers :
        (wr[w].live /\ ~wr[w].closed /\ res'.op = "Cancel" /\ res'.w = w)
        => (/\ res'.err = "" => names'[wr[w].path] = NoInode
            /\ names[wr[w].path] = NoInode => res'.err = ""
            /\ wr'[w].cancelled)]_vars

\* a Cancel that returned no error on a writer that had staged bytes and was
\* neither committed nor closed
C6_Witness ==
    /\ res.op = "Cancel" /\ res.err = "" /\ res.w = 1
    /\ wr[1].cancelled /\ ~wr[1].committed /\ ~wr[1].closed
    /\ wr[1].wrote # <<>>
    /\ names[PathA] = NoInode

\* C7: an open keeps the bytes the staging file holds exactly when append is
\* true and drops them when it is false; a writer whose first Commit succeeds
\* publishes the bytes kept at open followed by the bytes written, and its
\* staging file is removed, so that an append open after it starts empty.
C7_AppendSemantics ==
    [][\A w \in Writers :
        LET path == res'.path
            before == IF names[path] = NoInode THEN <<>> ELSE inodes[names[path]]
            kept == IF wr'[w].append THEN before ELSE <<>>
        IN /\ (res'.op = "Writer" /\ res'.w = w /\ res'.err = "")
              => (/\ names'[path] # NoInode
                  /\ inodes'[names'[path]] = kept
                  /\ wr'[w].base = kept
                  /\ wr'[w].off = Len(kept))
           /\ (/\ wr[w].live /\ res'.op = "Commit" /\ res'.w = w /\ res'.err = ""
               /\ ~wr[w].failedCommit)
              => (/\ Resolve(entries', path).val = wr[w].base \o wr[w].wrote
                  /\ names'[path] = NoInode)]_vars

\* a successful Commit of an append writer that found bytes at open and
\* wrote more
C7_Witness ==
    /\ res.op = "Commit" /\ res.err = "" /\ res.w = 1
    /\ wr[1].append /\ ~wr[1].failedCommit
    /\ wr[1].base # <<>> /\ wr[1].wrote # <<>>
    /\ ReadBack(PathA).val = wr[1].base \o wr[1].wrote

\* C8: Close issues no remote request and changes neither the bucket nor the
\* directory; when it returns no error the staging file, if in place, holds
\* the bytes found at open followed by all bytes accepted by Write; a Close on
\* a closed writer fails with "already closed" and changes nothing.
C8_CloseFrame ==
    [][\A w \in Writers :
        (wr[w].live /\ res'.op = "Close" /\ res'.w = w)
        => (/\ res'.reqs = <<>>
            /\ entries' = entries
            /\ names' = names
            /\ IF wr[w].closed
               THEN res'.err = "already closed" /\ wr' = wr /\ inodes' = inodes
               ELSE (res'.err = "" /\ names[wr[w].path] = wr[w].file)
                    => inodes'[wr[w].file] = wr[w].base \o wr[w].wrote)]_vars

\* C9: a List whose page requests the remote all served, and that returns
\* no error, returns the paths of exactly the entries the bucket holds under
\* the path, each once, in the order of the remote's pages, whatever the
\* size of the pages the remote serves.
C9_ListComplete ==
    [][(res'.op = "List" /\ res'.err = "" /\ faults' = Before.faults)
       => LET all == Listing(Before.entries, TrimPrefix(res'.path))
          IN /\ res'.val = [i \in 1..Len(all) |-> JoinRoot(all[i].entryid)]
             /\ \A i, j \in 1..Len(res'.val) : res'.val[i] = res'.val[j] => i = j]_vars

\* a List of the two entries under the path that took three page requests
C9_Witness ==
    /\ res.op = "List" /\ res.err = ""
    /\ Len(res.val) = 2
    /\ Len(res.reqs) = 3
    /\ res.val[1] # res.val[2]
    /\ Len(Listing(entries, TrimPrefix(res.path))) = 2

\* C10: in a Move with src # dst, when the read of src and the write to dst
\* succeeded and a deletion then failed, both src and dst resolve to the
\* content moved; when the read of src failed, the bucket is unchanged.
C10_MoveFailure ==
    [][(res'.op = "Move" /\ res'.err # "" /\ res'.reqs # <<>>
            /\ MoveSrc(res'.path) # MoveDst(res'.path))
       => LET src == MoveSrc(res'.path)
              dst == MoveDst(res'.path)
              last == res'.reqs[Len(res'.reqs)].req
          IN /\ last = "DeleteEntry"
                => (/\ Resolve(entries', src).err = ""
                    /\ Resolve(entries', src).val = res'.val
                    /\ Resolve(entries', dst).err = ""
                    /\ Resolve(entries', dst).val = res'.val)
             /\ last \in {"GetEntryByPath", "GetContent"}
                => entries' = Before.entries]_vars

\* the requests of one kind among the requests of a call, in order
OfKind(reqs, kind) == SelectSeq(reqs, LAMBDA q : q.req = kind)

\* C11: a Move in which a step failed returns an error, never success; a
\* Move that failed before the write left the bucket unchanged, and one that
\* failed before the delete removed no entry.
C11_MoveStepErrors ==
    [][res'.op = "Move"
       => (/\ faults' # Before.faults => res'.err # ""
           /\ (res'.err # "" /\ OfKind(res'.reqs, "CreateOrUpdateEntryByPath") = <<>>)
              => entries' = Before.entries
           /\ (res'.err # "" /\ OfKind(res'.reqs, "GetDiffEntries") = <<>>)
              => \A rp \in RPaths : Before.entries[rp].exists => entries'[rp].exists)]_vars

\* C12: when Delete has enumerated k entries and the deletion request for the
\* i-th fails (transport error, reported server error, a status other than
\* 'no content'), that step returns from Delete with the error of that
\* failure; the deletion requests went to the entries 1..i in order and the
\* failing one is the last request issued; the entries 1..i-1 are gone, and
\* the entries i+1..k and every entry outside the path are as they were when
\* the call began.
C12_DeletePartial ==
    [][\A fault \in DeleteSteps :
        (calls[1].op = "Delete" /\ DeleteEntryStep(1, fault))
        => LET f == calls[1]
               i == f.i
               k == Len(f.list)
               old == Before.entries
               dels == OfKind(res'.reqs, "DeleteEntry")
               expected == [del_err |-> "transport",
                            del_500 |-> "unexpected error",
                            del_status |-> "unexpected response"]
           IN /\ res'.op = "Delete" /\ res'.path = f.path
              /\ res'.err = expected[fault]
              /\ res'.reqs[Len(res'.reqs)].req = "DeleteEntry"
              /\ Len(dels) = i
              /\ \A j \in 1..i : dels[j].path = f.list[j].entryid
              /\ \A j \in 1..(i - 1) : ~entries'[f.list[j].entryid].exists
              /\ \A j \in (i + 1)..k :
                    entries'[f.list[j].entryid] = old[f.list[j].entryid]
              /\ \A rp \in RPaths : ~IsUnder(rp, TrimPrefix(f.path))
                                    => entries'[rp] = old[rp]]_vars

\* a Delete of the root that enumerated three entries, removed the first,
\* was answered with a status other than 'no content' for the second and
\* issued no request for the third
C12_Witness ==
    /\ res.op = "Delete" /\ res.err = "unexpected response" /\ res.path = PathRoot
    /\ Len(OfKind(res.reqs, "GetDiffEntries")) = 4
    /\ Len(OfKind(res.reqs, "DeleteEntry")) = 2
    /\ ~entries[TrimPrefix(PathA)].exists
    /\ entries[TrimPrefix(PathC)].exists

\* C13: a Delete that returns no error leaves no entry under the path in
\* the bucket, and no remote call of it failed.
C13_DeleteComplete ==
    [][(res'.op = "Delete" /\ res'.err = "")
       => (/\ Listing(entries', TrimPrefix(res'.path)) = <<>>
           /\ faults' = Before.faults)]_vars

\* C14: a call of GetContent, PutContent, Reader, Writer, Stat, List, Move or
\* Delete whose context carries no name returns the error of the bucket
\* lookup, issues no remote request, and leaves the bucket, the scratch
\* directory, the staging files and the writers as they were.
C14_NoNameNoEffect ==
    [][DriverCall({""})
       => (/\ res'.err = "could not determine bucket ID from context"
           /\ res'.reqs = <<>>
           /\ entries' = entries
           /\ names' = names
           /\ inodes' = inodes
           /\ wr' = wr)]_vars

\* an open for writing without a name, refused while the path has a staging
\* file that holds bytes and the bucket an entry
C14_Witness ==
    /\ res.op = "Writer" /\ res.err = "could not determine bucket ID from context"
    /\ names[PathA] # NoInode
    /\ inodes[names[PathA]] # <<>>
    /\ entries[TrimPrefix(PathA)].exists

\* the path p has the shape <prefix>/repositories/<bucket>[/...] with a
\* prefix of k tokens none of which is the marker
HasShape(p, k) ==
    /\ k + 4 <= Len(p)
    /\ \A i \in 1..k : p[i] # "repositories"
    /\ k > 0 => p[k] # "/"
    /\ SubSeq(p, k + 1, k + 3) = <<"/", "repositories", "/">>
    /\ p[k + 4] # "/"

\* C15: for a path of the shape <prefix>/repositories/<bucket>[/...] the
\* bucket derived is the segment after "repositories", whatever follows it;
\* for <prefix>/repositories/ and for the empty path the derivation fails
\* with 'could not parse bucket from path' naming the path.
C15_BucketFromPath ==
    res.op = "bucketFromPath"
    => LET p == res.path
       IN /\ \A k \in 0..Len(p) :
                HasShape(p, k) => (res.err = "" /\ res.val = Run(p, k + 4))
          /\ (\/ p = <<>>
              \/ \E k \in 0..Len(p) :
                    /\ k + 3 = Len(p)
                    /\ \A i \in 1..k : p[i] # "repositories"
                    /\ SubSeq(p, k + 1, k + 3) = <<"/", "repositories", "/">>)
             => (res.err = "could not parse bucket from path" /\ res.val = p)

\* the bucket of /v2/repositories/foo/ was derived
C15_Witness ==
    /\ res.op = "bucketFromPath"
    /\ res.path = <<"/", "v2", "/", "repositories", "/", "foo", "/">>
    /\ res.err = ""
    /\ res.val = <<"foo">>

\* the writer in slot w is open: neither closed, committed nor cancelled
Open(w) == wr[w].live /\ AlreadyErr(wr[w]) = "" /\ ~wr[w].cancelled

\* C16: no lock keeps a second writer off a path: an open of a path at which
\* another open writer is staging succeeds and hands out that writer's file,
\* truncated when append is false.
C16_SharedStaging ==
    [][\A w \in Writers, v \in Writers :
        (v # w /\ Open(v) /\ wr[v].path = PathA)
        => /\ \A append \in BOOLEAN :
                (names[PathA] = wr[v].file /\ WriterOpen(w, PathA, append, "bkt", "none"))
                => (/\ wr'[w].call.pc = "position"
                    /\ wr'[w].call.ofile = wr[v].file
                    /\ wr'[v] = wr[v]
                    /\ inodes' = inodes)
           /\ (wr[w].call.ofile = wr[v].file /\ WriterPosition(w, "none"))
                => (/\ res'.err = ""
                    /\ wr'[w].file = wr[v].file
                    /\ wr'[v] = wr[v]
                    /\ ~wr[w].call.oappend => inodes'[wr[v].file] = <<>>)]_vars

\* the interleaving: a writer that was not opened for append and whose first
\* Commit succeeded has published bytes other than those written to it,
\* the other writer having been opened on the same path meanwhile
C16_Witness ==
    \E w \in Writers, v \in Writers :
        /\ v # w
        /\ res.op = "Commit" /\ res.err = "" /\ res.w = w
        /\ ~wr[w].append /\ ~wr[w].failedCommit
        /\ wr[v].live /\ wr[v].path = wr[w].path /\ wr[v].file = wr[w].file
        /\ ReadBack(wr[w].path).val # wr[w].wrote

\* the writers and the PutContent caller that take the step
Stepping == {w \in Writers : wr'[w] # wr[w]}

\* the paths the step may touch: those of the writers and of the PutContent
\* call that take it
SteppingPaths ==
    {wr[w].call.opath : w \in Stepping} \cup {wr'[w].call.opath : w \in Stepping}
        \cup {wr[w].path : w \in Stepping} \cup {wr'[w].path : w \in Stepping}
        \cup (IF calls'[1] # calls[1] THEN {calls[1].path, calls'[1].path} ELSE {})

\* a step left every path but those of its caller as it was: the entries of
\* the other paths, the other staging files, the other writers
OthersKept ==
    /\ Cardinality(Stepping) + (IF calls'[1] # calls[1] THEN 1 ELSE 0) <= 1
    /\ \A rp \in RPaths :
        entries'[rp] # entries[rp] => \E q \in SteppingPaths : TrimPrefix(q) = rp
    /\ \A q \in DPaths : names'[q] # names[q] => q \in SteppingPaths
    /\ \A v \in Writers \ Stepping :
        (wr[v].live /\ wr[v].fdOpen) => inodes'[wr[v].file] = inodes[wr[v].file]

\* C17: with the callers on distinct paths, every successful Commit
\* publishes the bytes its writer found at open followed by the bytes
\* written to it, every successful PutContent publishes its content, and
\* every step of every call leaves the other paths' entries, staging files
\* and writers as they were, however the callers' steps interleave.
C17_DistinctPaths ==
    [][/\ OthersKept
       /\ \A w \in Writers :
            (wr[w].call.pc = "remove" /\ CommitRemove(w, "none") /\ res'.err = "")
            => Resolve(entries', wr[w].path).val = wr[w].base \o wr[w].wrote
       /\ (calls[1].pc = "upload" /\ UploadContentStep(1, "none") /\ res'.err = "")
            => Resolve(entries', calls[1].path).val = calls[1].body]_vars

\* a successful Commit on /c of bytes other than those the writer on /a has
\* staged and those stored at /a/b, a PutContent of other bytes to /a/b
\* being between its two requests
C17_Witness ==
    /\ res.op = "Commit" /\ res.err = "" /\ res.w = 2
    /\ wr[2].wrote = <<2, 2>>
    /\ ReadBack(PathC).val = <<2, 2>>
    /\ Open(1) /\ wr[1].wrote = <<1, 1>> /\ inodes[wr[1].file] = <<1>>
    /\ ReadBack(PathAB).val = <<1>>
    /\ calls[1].pc = "upload" /\ calls[1].body = <<2>>

\* C18: Write, Close and Cancel issue no remote request and leave the
\* bucket as it is; after a Commit attempt the entry of the path is either
\* as it was before, or records the digest and size of the staged bytes and
\* holds them.
C18_AtomicPublish ==
    [][/\ res'.op \in {"Write", "Close", "Cancel"}
          => (res'.reqs = <<>> /\ entries' = entries)
       /\ res'.op = "Commit"
          => LET rp == TrimPrefix(res'.path)
                 old == Before.entries
                 new == entries'[rp]
                 staged == inodes[wr[res'.w].file]
             IN /\ \A q \in RPaths \ {rp} : entries'[q] = old[q]
                /\ \/ new = old[rp]
                   \/ /\ new.exists /\ new.uploaded
                      /\ new.content = staged
                      /\ new.hash = Md5Hex(staged)
                      /\ new.size = Len(staged)]_vars

\* the number of page requests of a listing of n entries served p a page
PagesAsked(n, p) == ((n + p - 1) \div p) + 1

\* C19: a listing asks for the pages 1, 2, 3, ... in order; when no request
\* fails it ends, without error, with the first page that holds no entry,
\* after ceil(N/P) + 1 requests for N entries served P a page, so after one
\* request and with an empty result when the first page is empty; a 404 on
\* the first page ends it with the not-found error and no entries.
C19_ListTerminates ==
    [][LET f == calls[1]
           prefix == TrimPrefix(res'.path)
           n == Len(Listing(entries, prefix))
       IN /\ res'.op = "List"
             => \A i \in 1..Len(res'.reqs) :
                  res'.reqs[i].req = "GetDiffEntries" /\ res'.reqs[i].size = i
          /\ (res'.op = "List" /\ f.op = "List" /\ faults' = Before.faults)
             => (/\ res'.err = ""
                 /\ Len(res'.reqs) = PagesAsked(n, f.per)
                 /\ Len(res'.val) = n
                 /\ GetDiffEntries(entries, prefix, Len(res'.reqs), f.per) = <<>>
                 /\ \A i \in 1..(Len(res'.reqs) - 1) :
                        GetDiffEntries(entries, prefix, i, f.per) # <<>>)
          /\ (f.op = "List" /\ f.page = 1 /\ GetDiffEntriesStep(1, "list_404"))
             => (/\ res'.op = "List" /\ res'.err = "PathNotFound" /\ res'.path = f.path
                 /\ res'.val = <<>>
                 /\ Len(res'.reqs) = 1)]_vars

\* a listing of a path with entries under it that was answered 404 on its
\* first page
C19_Witness ==
    /\ res.op = "List" /\ res.err = "PathNotFound"
    /\ Len(res.reqs) = 1 /\ res.reqs[1].size = 1
    /\ Len(Listing(entries, TrimPrefix(res.path))) = 2

\* the requests the Commit of writer 1 has issued by the end of the step
IssuedAfter ==
    IF wr[1].call.pc \notin {"idle", "position"} /\ wr'[1].call.pc = "idle"
    THEN res'.reqs ELSE wr'[1].call.creqs

\* C20: taking a Commit step by step, the upload request is issued only
\* after the entry upsert returned the identifier the upload is addressed
\* to; the writer becomes committed only in the step of an upload that
\* stored the staged bytes under the digest sent with the upsert, the
\* artifact still in place; the staging artifact is removed by a Commit only
\* when the writer is marked committed.
C20_CommitOrder ==
    [][LET s == wr[1]
           c == s.call
           rp == TrimPrefix(s.path)
           ups == OfKind(c.creqs, "CreateOrUpdateEntryByPath")
           upl == OfKind(IssuedAfter, "UploadContent")
           uploadIssued == Len(upl) > Len(OfKind(c.creqs, "UploadContent"))
           inCommit == \/ c.pc \in {"stat", "hash", "upsert", "upload", "answer", "remove"}
                       \/ \E flt \in CommitLocalFaults : CommitLocal(1, flt)
       IN /\ Len(upl) <= 1
          /\ uploadIssued
             => /\ Len(ups) = 1 /\ c.creqs = ups
                /\ entries[rp].exists
                /\ c.cid = entries[rp].entryid
                /\ upl[1].path = c.cid
                /\ entries[rp].hash = ups[1].hash
                /\ entries[rp].size = ups[1].size
                /\ ~s.committed
          /\ (entries' # entries /\ ~uploadIssued)
             => /\ c.creqs = <<>>
                /\ wr'[1].call.creqs = OfKind(wr'[1].call.creqs, "CreateOrUpdateEntryByPath")
                /\ Len(wr'[1].call.creqs) = 1
                /\ wr'[1].call.cid = entries'[rp].entryid
          /\ (wr'[1].committed /\ ~s.committed)
             => /\ uploadIssued
                /\ upl[1].hash = ups[1].hash
                /\ entries'[rp].uploaded
                /\ entries'[rp].content = inodes[s.file]
                /\ entries'[rp].hash = Md5Hex(inodes[s.file])
                /\ names' = names
          /\ (inCommit /\ names' # names)
             => /\ s.committed /\ c.pc = "remove"
                /\ names' = [names EXCEPT ![s.path] = NoInode]]_vars

\* a Commit that upserted the entry, uploaded two staged bytes to the
\* identifier returned, marked the writer committed and removed the artifact
C20_Witness ==
    /\ res.op = "Commit" /\ res.err = ""
    /\ Len(res.reqs) = 2
    /\ res.reqs[2].req = "UploadContent" /\ res.reqs[2].path = <<"a">>
    /\ Len(res.reqs[2].body) = 2
    /\ wr[res.w].committed
    /\ names[res.path] = NoInode

\* C21: at every successful Commit of a writer, also one that follows a
\* failed Commit and further Writes, the size sent in the entry upsert is
\* Size() and the published content is the bytes present at open (append)
\* followed by the bytes the Write calls accepted, in call order.
C21_CommitPublishesAll ==
    \A w \in Writers :
        (res.op = "Commit" /\ res.w = w /\ res.err = "")
        => (/\ res.reqs[1].req = "CreateOrUpdateEntryByPath"
            /\ res.reqs[1].size = Size(w)
            /\ ReadBack(wr[w].path).err = ""
            /\ ReadBack(wr[w].path).val = wr[w].base \o wr[w].wrote)

\* C22: whenever Move(src, dst) returns without error, for any src and dst
\* (src = dst and dst under the prefix src included), dst resolves to the
\* content src held before the call.
C22_MoveResult ==
    [][(res'.op = "Move" /\ res'.err = "")
       => LET src == MoveSrc(res'.path)
              dst == MoveDst(res'.path)
          IN /\ Resolve(Before.entries, src).err = ""
             /\ Resolve(entries', dst).err = ""
             /\ Resolve(entries', dst).val
                    = Resolve(Before.entries, src).val]_vars

====
